---------------------------- MODULE Spec2Model ----------------------------
(***************************************************************************)
(* Model of automated_metashape/MetashapeProcessing.py: the class          *)
(* AutomatedProcessing, which sequences calls into the Metashape engine    *)
(* from a configuration mapping.  One run is init_workspace followed by    *)
(* init_tasks.  The engine is opaque: each of its operations either        *)
(* returns or raises, and the outcome of image analysis and of camera      *)
(* alignment is a nondeterministic choice over the cameras of the chunk.   *)
(***************************************************************************)
EXTENDS Naturals, Sequences, FiniteSets, TLC

\* Bounds of the model.
MaxConfigured == 2  \* sections (stages, masks, publishData) present in the configuration
NumCameras == 2     \* photos found by add_photos / held by a loaded project

Cameras == 1..NumCameras

\* The if-chain of init_tasks, in source order (lines 260-333).
StageOrderSwapped ==
  << "addPhotos", "analyzeImages", "detectGCPs", "addGCPs", "optimizeCameras",
     "alignPhotos", "buildDepthMaps", "buildPointCloud", "filterPointCloud",
     "buildModel", "buildTexture", "buildTiledModel", "buildDEM", "buildContours" >>

StageOrder ==
  << "addPhotos", "analyzeImages", "detectGCPs", "addGCPs", "alignPhotos",
     "optimizeCameras", "buildDepthMaps", "buildPointCloud", "filterPointCloud",
     "buildModel", "buildTexture", "buildTiledModel", "buildDEM", "buildContours" >>

Stages == { StageOrder[i] : i \in DOMAIN StageOrder }

\* Configuration sections that carry an "enabled" flag.
Sections == Stages \cup {"masks", "publishData"}

Status == {"absent", "off", "on"}

\* Paths: the run-scoped project file of init_workspace (line 80), the
\* loaded project with suffix .psx (line 225), and a loaded project that
\* lies in a OneDrive folder (line 216).
RunPath == "project/run_id.psx"
SrcPath == "loaded/source.psx"
OneDrivePath == "onedrive/source.psx"
NoPath == "none"
Paths == {RunPath, SrcPath, OneDrivePath}

VARIABLES
  cfg,           \* self.cfg: the configuration mapping
  pc,            \* position of the run
  pos,           \* number of if-statements of init_tasks evaluated so far
  network,       \* self.network: "unset", "local" or "network"
  project_file,  \* self.project_file
  doc,           \* self.doc: the in-memory session
  files,         \* the persisted project files, by path
  task_batch,    \* self.task_batch
  trace,         \* history: what the run has done, in order
  filtering      \* a stage's section and the parameters a handler filters from it

vars == <<cfg, pc, pos, network, project_file, doc, files, task_batch, trace, filtering>>

----------------------------------------------------------------------------
\* Sessions

\* quality: camera.meta['Image/Quality'] in hundredths, 0 before an analysis;
\* markers: the labels of the markers; projections: <<marker, camera>>.
NoDoc ==
  [ path |-> NoPath, cams |-> {}, disabled |-> {}, aligned |-> {},
    quality |-> [cam \in Cameras |-> 0],
    refOff |-> FALSE, locOff |-> FALSE, markers |-> {}, projections |-> {},
    products |-> {} ]

\* Metashape.Document() followed by addChunk (lines 221, 235).
NewDoc == NoDoc

\* A project saved by an earlier run, as doc.open finds it (line 225).
LoadedDoc(p) ==
  [ NoDoc EXCEPT !.path = p, !.cams = Cameras, !.aligned = Cameras,
                 !.products = {"depth_maps", "point_cloud", "model", "dem"} ]

Ev(k, s, a) == [k |-> k, s |-> s, a |-> a]

\* The state a handler threads through its statements.
St(d, f, t, c) ==
  [ok |-> TRUE, doc |-> d, files |-> f, tasks |-> t, cfg |-> c, evs |-> <<>>]

\* An exception leaves the handler.
Raise(st, s) == [st EXCEPT !.ok = FALSE, !.evs = Append(@, Ev("raise", s, ""))]

\* Sequential composition: F runs on the outcomes that did not raise.
Then(S, F(_)) ==
  { x \in S : ~x.ok } \cup UNION { F(x) : x \in { y \in S : y.ok } }

\* doc.save(): writes the session to the path it was opened from or last
\* saved to; doc.save(path) writes to path and makes it the session's path.
Save(st, s) ==
  [st EXCEPT !.files = [@ EXCEPT ![st.doc.path] = st.doc],
             !.evs = Append(@, Ev("save", s, st.doc.path))]

SaveAs(st, s, p) ==
  LET d == [st.doc EXCEPT !.path = p]
  IN  [st EXCEPT !.doc = d, !.files = [@ EXCEPT ![p] = d],
                 !.evs = Append(@, Ev("save", s, p))]

\* A synchronous operation of the engine on the live session: it is called,
\* and returns or raises.
EngineCall(st, s, op) ==
  LET called == [st EXCEPT !.evs = Append(@, Ev("engine", s, op))]
  IN  {called, Raise(called, s)}

\* A direct mutation of the session's cameras or markers by the handler.
Mutate(st, s, what, d) ==
  [st EXCEPT !.doc = d, !.evs = Append(@, Ev("mutate", s, what))]

\* Metashape.Tasks.X(); task.decode(parameters); self._encode_task(task)
\* (lines 349-360): decode raises on parameters the engine rejects.
EncodeTask(st, s, name) ==
  { [st EXCEPT !.tasks = Append(@, name), !.evs = Append(@, Ev("task", s, name))],
    Raise(st, s) }

\* self._return_parameters(stage=...) written to the log (lines 192-208).
LogParameters(st, s) == [st EXCEPT !.evs = Append(@, Ev("log", s, "parameters"))]

AddProduct(st, p) == [st EXCEPT !.doc.products = @ \cup {p}]

----------------------------------------------------------------------------
\* Configuration

\* "X" in self.cfg and self.cfg["X"]["enabled"]
EnabledKeyOnly(c, s) == c.section[s] # "absent"

Enabled(c, s) == c.section[s] = "on"

\* The next stage whose condition in the if-chain holds, 0 when none is left.
NextStage(c, p) ==
  LET later == { i \in DOMAIN StageOrder : i > p /\ Enabled(c, StageOrder[i]) }
  IN  IF later = {} THEN 0 ELSE CHOOSE i \in later : \A j \in later : i <= j

\* The sets of sections present, at most MaxConfigured of them.
PresentSets == { p \in SUBSET Sections : Cardinality(p) <= MaxConfigured }

\* The sections of the stages that import photos and ground control.
ImportSections == {"addPhotos", "analyzeImages", "addGCPs"}

SectionMap(present, on) ==
  [s \in Sections |->
     IF s \in on THEN "on" ELSE IF s \in present THEN "off" ELSE "absent"]

\* A flag inside a stage's section: it is read only by the stage's handler.
FlagOf(sec, s) == IF sec[s] = "on" THEN BOOLEAN ELSE {FALSE}

\* analyzeImages.quality_cutoff in hundredths: absent, or configured.
NoCutoff == [present |-> FALSE, value |-> 0]

Cutoffs == {NoCutoff, [present |-> TRUE, value |-> 51]}

\* The values of Image/Quality the analysis can give a photo, in hundredths.
Qualities == {49, 50, 51}

\* gcp_imagecoords_table.csv: rows of a marker and a camera label.  The
\* labels of the cameras are their numbers, 0 is the label of no camera.
PixelRowOf(m, label) == [marker |-> m, camera |-> label]

PixelTables ==
  { <<>>, <<PixelRowOf(1, 1)>>, <<PixelRowOf(1, 0)>>,
    <<PixelRowOf(1, 0), PixelRowOf(1, 1)>> }

\* The columns that add_gcps requires of gcp_table.csv (line 535).
RequiredColumns == {"marker", "x", "y", "z"}

\* The columns of gcp_table.csv after lines 521-533.
ColumnSets == {RequiredColumns, RequiredColumns \ {"z"}}

GcpTables == PixelTables \X ColumnSets

\* The inputs of a stage's handler vary only when the stage is enabled.
InputOf(sec, s, inputs, default) == IF sec[s] = "on" THEN inputs ELSE {default}

\* load_project_path and enable_overwrite.
LoadModes ==
  ({NoPath} \X {"absent", "on"}) \cup ({SrcPath} \X Status) \cup ({OneDrivePath} \X {"absent"})

OverwriteNever(c) == FALSE

Overwrite(c) == c.enable_overwrite = "on"

\* read_config (lines 72-75): the configuration, with at most MaxConfigured
\* sections out of universe, and the photos and tables it points to.
Configured(universe, cuts, quals, gcps) ==
  \E present \in { p \in PresentSets : p \subseteq universe } : \E on \in SUBSET present :
    LET sec == SectionMap(present, on)
    IN  \E net \in Status, lm \in LoadModes,
           dbl \in FlagOf(sec, "alignPhotos"),
           gcponly \in FlagOf(sec, "addGCPs"),
           cls \in FlagOf(sec, "buildPointCloud"),
           pcm \in FlagOf(sec, "filterPointCloud"),
           rml \in FlagOf(sec, "addPhotos"),
           keys \in FlagOf(sec, "analyzeImages"),
           cut \in InputOf(sec, "analyzeImages", cuts, NoCutoff),
           gcp \in InputOf(sec, "addGCPs", gcps, << <<>>, RequiredColumns >>),
           mcams \in FlagOf(sec, "masks") :
          cfg = [ section |-> sec,
                  networkProcessing |-> net,
                  load_project_path |-> lm[1],
                  enable_overwrite |-> lm[2],
                  double_alignment |-> dbl,
                  optimize_w_gcps_only |-> gcponly,
                  classify |-> cls,
                  point_confidence_max |-> pcm,
                  remove_photo_location_metadata |-> rml,
                  analyze_keys |-> keys,
                  quality_cutoff |-> cut,
                  photo_qualities |-> quals,
                  gcp_pixels |-> gcp[1],
                  gcp_columns |-> gcp[2],
                  mask_cameras |-> mcams ]

\* The state of the object after __init__ and read_config.
Constructed ==
  /\ pc = "start"
  /\ pos = 0
  /\ network = "unset"
  /\ project_file = NoPath
  /\ doc = NoDoc
  /\ files = [p \in Paths |->
                IF p = cfg.load_project_path THEN LoadedDoc(p) ELSE NoDoc]
  /\ task_batch = <<>>
  /\ trace = <<>>
  /\ filtering = [phase |-> "off"]

\* Runs over all the sections: photos of qualities 0.49 and 0.51, no
\* configured cutoff, a pixel table of an unmatched and a matched row.
Init ==
  /\ Configured(Sections, {NoCutoff}, {49, 51},
                { << <<PixelRowOf(1, 0), PixelRowOf(1, 1)>>, RequiredColumns >> })
  /\ Constructed

\* Runs over the import stages, with all the cutoffs, qualities and tables.
InitImport ==
  /\ Configured(ImportSections, Cutoffs, Qualities, GcpTables)
  /\ Constructed

----------------------------------------------------------------------------
\* init_workspace (lines 77-95)

\* _check_environment (lines 215-218)
UnsafeLocationIgnored(c) == FALSE

UnsafeLocation(c) == c.load_project_path = OneDrivePath

\* _init_filesystem after the check, and _init_logging (lines 113-190): the
\* project directory is made and the log file is set up.  Which file it is
\* (the log beside the loaded project, or the log of this run with the
\* loaded project's log copied onto it) depends on whether the loaded
\* project has a log; the history keeps only that a log file is set up.
InitLogging(c) ==
  <<Ev("mkdir", "init_workspace", "project_path"),
    Ev("logfile", "init_workspace", "log")>>

\* _init_metashape_document (lines 220-240): the session and project_file.
InitDocument(c, f) ==
  IF c.load_project_path # NoPath
  THEN [ st |-> [St(f[c.load_project_path], f, <<>>, c) EXCEPT
                   !.evs = <<Ev("open", "init_workspace", c.load_project_path)>>],
         project_file |-> IF Overwrite(c) THEN c.load_project_path ELSE RunPath ]
  ELSE [ st |-> SaveAs(St(NewDoc, f, <<>>, c), "init_workspace", RunPath),
         project_file |-> RunPath ]

\* "networkProcessing" in self.cfg and self.cfg["networkProcessing"]["enabled"]
\* (line 89)
NetworkEnabledKeyOnly(c) == c.networkProcessing # "absent"

NetworkEnabled(c) == c.networkProcessing = "on"

\* _init_network_processing when connect raises (lines 249-250): the
\* exception is raised again, line 91 is not reached.
ConnectFailureFallsBack == [network |-> "local", pc |-> "tasks"]

ConnectFailure == [network |-> "unset", pc |-> "failed"]

InitWorkspaceUnsafe ==
  /\ pc = "start"
  /\ UnsafeLocation(cfg)
  /\ pc' = "failed"
  /\ project_file' = RunPath
  /\ trace' = Append(trace, Ev("raise", "init_workspace", "environment"))
  /\ UNCHANGED <<filtering, cfg, pos, network, doc, files, task_batch>>

\* _init_network_processing (lines 242-250): connect raises, or the client
\* is connected and the batch is empty.
InitWorkspace ==
  /\ pc = "start"
  /\ ~UnsafeLocation(cfg)
  /\ LET init == InitDocument(cfg, files)
         evs  == trace \o InitLogging(cfg) \o init.st.evs
     IN  /\ project_file' = init.project_file
         /\ doc' = init.st.doc
         /\ files' = init.st.files
         /\ IF NetworkEnabled(cfg)
            THEN \E connected \in BOOLEAN :
                   IF connected
                   THEN /\ network' = "network"
                        /\ pc' = "tasks"
                        /\ trace' = evs \o <<Ev("connect", "init_workspace", ""),
                                              Ev("log", "init_workspace", "network mode")>>
                   ELSE /\ network' = ConnectFailure.network
                        /\ pc' = ConnectFailure.pc
                        /\ trace' = evs \o <<Ev("connect", "init_workspace", ""),
                                              Ev("raise", "init_workspace", "connect")>>
            ELSE /\ network' = "local"
                 /\ pc' = "tasks"
                 /\ trace' = evs
  /\ task_batch' = <<>>
  /\ UNCHANGED <<filtering, cfg, pos>>

----------------------------------------------------------------------------
\* Stage handlers.  Each takes the state st at its first statement, the
\* configuration c and the mode net, and yields the set of states in which
\* it can return or raise.

\* The masks of add_photos (lines 381-423): with no "cameras" key, one
\* generateMasks per camera, a failure of which is caught and passed over;
\* with the key, one call for all of them.
RECURSIVE MaskEach(_, _, _)
MaskEach(st, s, n) ==
  IF n = 0 THEN st
  ELSE MaskEach([st EXCEPT !.evs = Append(@, Ev("engine", s, "generateMasks"))], s, n - 1)

MaskOutcomes(st, c) ==
  LET s == "addPhotos"
  IN  IF Enabled(c, "masks")
      THEN Then(IF c.mask_cameras
                THEN EngineCall(st, s, "generateMasks")
                ELSE { MaskEach(st, s, Cardinality(st.doc.cams)) },
                LAMBDA x : { LogParameters(x, "masks") })
      ELSE {st}

\* add_photos (lines 362-443): no branch on the mode.

AddPhotosOutcomes(st, c, net) ==
  LET s == "addPhotos"
      added(x) == [x EXCEPT !.doc.cams = Cameras]
      relabel(x) == Mutate(x, s, "cameras", x.doc)
      strip(x) == IF c.remove_photo_location_metadata
                  THEN Mutate(x, s, "cameras", [x.doc EXCEPT !.locOff = TRUE])
                  ELSE x
  IN  Then(Then(EngineCall(st, s, "addPhotos"),
                LAMBDA x : MaskOutcomes(added(x), c)),
           LAMBDA x : { LogParameters(Save(strip(relabel(x)), s), s) })

\* The cutoff when the section has no quality_cutoff (line 470), in
\* hundredths.
DefaultCutoff == 50

\* float(camera.meta['Image/Quality']) < quality_cutoff (line 477)
BelowOrAt(q, cutoff) == q <= cutoff

Below(q, cutoff) == q < cutoff

\* Lines 467-471: the configured cutoff is logged, or the default is
\* written into the configuration and logged.
ApplyCutoff(st, s) ==
  IF st.cfg.quality_cutoff.present
  THEN [st EXCEPT !.evs = Append(@, Ev("log", s, "cutoff"))]
  ELSE [st EXCEPT !.cfg.quality_cutoff = [present |-> TRUE, value |-> DefaultCutoff],
                  !.evs = Append(@, Ev("log", s, "default cutoff"))]

\* Lines 476-479: the cameras whose quality is below the cutoff are disabled.
DisableLowQuality(st, s) ==
  LET low == { cam \in st.doc.cams :
                 Below(st.doc.quality[cam], st.cfg.quality_cutoff.value) }
  IN  IF low = {} THEN st
      ELSE Mutate(st, s, "cameras", [st.doc EXCEPT !.disabled = @ \cup low])

\* analyze_images (lines 446-479): the parameters are collected in a list,
\* so an allow-listed key in the section raises TypeError (line 454); the
\* local branch disables the cameras whose quality is below the cutoff and
\* returns without doc.save().
AnalyzeImagesOutcomes(st, c, net) ==
  LET s == "analyzeImages"
      analysed(x, q) ==
        [x EXCEPT !.doc.quality = [cam \in Cameras |->
                                     IF cam \in x.doc.cams THEN q[cam] ELSE @[cam]]]
  IN  IF c.analyze_keys THEN { Raise(st, s) }
      ELSE IF net = "network"
      THEN Then(EncodeTask(st, s, "AnalyzeImages"),
                LAMBDA x : { LogParameters(x, s) })
      ELSE Then(EngineCall(st, s, "analyzeImages"),
                LAMBDA x : { DisableLowQuality(ApplyCutoff(analysed(x, q), s), s) :
                             q \in [x.doc.cams -> c.photo_qualities] })

\* detect_gcps (lines 481-490): marker_detection works on image files, not
\* on the session.
DetectGcpsOutcomes(st, c, net) ==
  LET s == "detectGCPs"
      called == [st EXCEPT !.evs = Append(@, Ev("external", s, "marker_detection"))]
  IN  {called, Raise(called, s)}

\* _get_camera (lines 1137-1140): the camera with the label, 0 for None.
GetCamera(d, label) == IF label \in d.cams THEN label ELSE 0

\* A raise of which the history keeps the reason.
RaiseFor(st, s, why) ==
  [st EXCEPT !.ok = FALSE, !.evs = Append(@, Ev("raise", s, why))]

\* Lines 508-510: a row whose camera is not in the session.
UnmatchedPixelRowRaises(st, s, row) == { RaiseFor(st, s, "camera not found") }

UnmatchedPixelRow(st, s, row) ==
  { [st EXCEPT !.evs = Append(@, Ev("print", s, "camera not found"))] }

\* One pass of the loop over the pixel table (lines 506-517).
PixelRow(st, s, row) ==
  LET camera == GetCamera(st.doc, row.camera)
      marked == IF row.marker \in st.doc.markers THEN st
                ELSE Mutate(st, s, "addMarker", [st.doc EXCEPT !.markers = @ \cup {row.marker}])
  IN  IF camera = 0 THEN UnmatchedPixelRow(st, s, row)
      ELSE { Mutate(marked, s, "projection",
                    [marked.doc EXCEPT !.projections = @ \cup {<<row.marker, camera>>}]) }

RECURSIVE PixelRows(_, _, _)
PixelRows(S, s, rows) ==
  IF rows = <<>> THEN S
  ELSE PixelRows(Then(S, LAMBDA x : PixelRow(x, s, Head(rows))), s, Tail(rows))

\* Lines 535-536 and the loop over the coordinate table (lines 546-560),
\* which holds marker 1.
CoordinateRows(st, s, columns) ==
  IF ~(RequiredColumns \subseteq columns) THEN { RaiseFor(st, s, "columns") }
  ELSE { Mutate(IF 1 \in st.doc.markers THEN st
                ELSE Mutate(st, s, "addMarker", [st.doc EXCEPT !.markers = @ \cup {1}]),
                s, "location", st.doc) }

\* add_gcps (lines 492-574): no branch on the mode.  The marker coordinate
\* system is set and the pixel table is applied before the coordinate
\* table is read and checked; reading either table can raise.
AddGcpsOutcomes(st, c, net) ==
  LET s == "addGCPs"
      crs == Mutate(st, s, "marker_crs", st.doc)
      pixels == PixelRows({crs}, s, c.gcp_pixels)
  IN  Then(Then(Then({Raise(st, s), Raise(crs, s)} \cup pixels
                       \cup { Raise(x, s) : x \in { y \in pixels : y.ok } },
                     LAMBDA x : CoordinateRows(x, s, c.gcp_columns)),
                LAMBDA x : EngineCall(x, s, "updateTransform")),
           LAMBDA x : { LogParameters(Save(x, s), s) })

\* The number of repair passes of align_photos (lines 642-652).
RepairPassesUntilAligned(double, failed) ==
  IF double /\ failed # {} THEN Cardinality(failed) + 1 ELSE 0

RepairPasses(double, failed) == IF double /\ failed # {} THEN 1 ELSE 0

\* alignCameras on the cameras in todo: any of them may get a transform.
\* The history keeps the arguments of the call and the cameras that have
\* a transform when it returns.
AlignPass(st, s, todo, reset) ==
  Then(EngineCall([st EXCEPT !.evs = Append(@, Ev("args", s,
                     [cameras |-> todo, reset_alignment |-> reset]))],
                  s, "alignCameras"),
       LAMBDA x : { LET got == (IF reset THEN {} ELSE x.doc.aligned) \cup new
                    IN  Save([x EXCEPT !.doc.aligned = got,
                                       !.evs = Append(@, Ev("transforms", s, got))], s) :
                    new \in SUBSET todo })

\* The cameras with camera.transform == None (lines 644-647).
RetrySetAll(d) == d.cams

RetrySet(d) == d.cams \ d.aligned

RECURSIVE Repair(_, _, _)
Repair(S, s, n) ==
  IF n = 0 THEN S
  ELSE Repair(Then(S, LAMBDA x :
                        LET failed == RetrySet(x.doc)
                        IN  IF failed = {} THEN {x}
                            ELSE AlignPass(x, s, failed, FALSE)),
              s, n - 1)

\* The tasks align_photos adds to the batch (lines 620-627).
AlignTasksReversed == <<"AlignCameras", "MatchPhotos">>

AlignTasks == <<"MatchPhotos", "AlignCameras">>

\* What align_photos does about double_alignment in distributed mode
\* (lines 629-630): a warning, and no second alignment.
DoubleAlignmentOnServerRepairs(st, s, double) ==
  IF double THEN AlignPass(st, s, st.doc.cams \ st.doc.aligned, FALSE) ELSE {st}

DoubleAlignmentOnServer(st, s, double) ==
  IF double
  THEN {[st EXCEPT !.evs = Append(@, Ev("warn", s, "double_alignment"))]}
  ELSE {st}

\* align_photos (lines 576-659)
AlignPhotosOutcomes(st, c, net) ==
  LET s == "alignPhotos"
  IN  IF net = "network"
      THEN Then(Then(Then(EncodeTask(st, s, AlignTasks[1]),
                          LAMBDA x : EncodeTask(x, s, AlignTasks[2])),
                     LAMBDA x : DoubleAlignmentOnServer(x, s, c.double_alignment)),
                LAMBDA x : { LogParameters(x, s) })
      ELSE Then(Then(Then(EngineCall(st, s, "matchPhotos"),
                          LAMBDA x : AlignPass(x, s, x.doc.cams, TRUE)),
                     LAMBDA x : Repair({x}, s,
                                       RepairPasses(c.double_alignment,
                                                    RetrySet(x.doc)))),
                LAMBDA x : { LogParameters(x, s) })

\* optimize_cameras (lines 661-708): the camera references are disabled
\* before the branch on the mode.
OptimizeCamerasOutcomes(st, c, net) ==
  LET s == "optimizeCameras"
      st1 == IF Enabled(c, "addGCPs") /\ c.optimize_w_gcps_only /\ st.doc.cams # {}
             THEN Mutate(st, s, "cameras", [st.doc EXCEPT !.refOff = TRUE])
             ELSE st
  IN  IF net = "network"
      THEN Then(EncodeTask(st1, s, "OptimizeCameras"),
                LAMBDA x : { LogParameters(x, s) })
      ELSE Then(EngineCall(st1, s, "optimizeCameras"),
                LAMBDA x : { LogParameters(Save(x, s), s) })

\* The shape shared by build_depth_maps (710-743), build_model (832-872)
\* and build_tiled_model (930-966): one task, or one operation and a save.
BuildOutcomesLocal(st, s, net, task, op, product) ==
  Then(EngineCall(st, s, op),
       LAMBDA x : { LogParameters(Save(AddProduct(x, product), s), s) })

BuildOutcomes(st, s, net, task, op, product) ==
  IF net = "network"
  THEN Then(EncodeTask(st, s, task), LAMBDA x : { LogParameters(x, s) })
  ELSE Then(EngineCall(st, s, op),
            LAMBDA x : { LogParameters(Save(AddProduct(x, product), s), s) })

BuildDepthMapsOutcomes(st, c, net) ==
  BuildOutcomes(st, "buildDepthMaps", net, "BuildDepthMaps", "buildDepthMaps", "depth_maps")

BuildModelOutcomes(st, c, net) ==
  BuildOutcomes(st, "buildModel", net, "BuildModel", "buildModel", "model")

BuildTiledModelOutcomes(st, c, net) ==
  BuildOutcomes(st, "buildTiledModel", net, "BuildTiledModel", "buildTiledModel", "tiled_model")

\* build_point_cloud (lines 746-806)
BuildPointCloudOutcomes(st, c, net) ==
  LET s == "buildPointCloud"
  IN  IF net = "network"
      THEN Then(Then(EncodeTask(st, s, "BuildPointCloud"),
                     LAMBDA x : IF c.classify
                                THEN EncodeTask(x, s, "ClassifyGroundPoints")
                                ELSE {x}),
                LAMBDA x : { LogParameters(x, s) })
      ELSE Then(Then(Then(EngineCall(st, s, "buildPointCloud"),
                          LAMBDA x : { Save(AddProduct(x, "point_cloud"), s) }),
                     LAMBDA x : IF c.classify
                                THEN Then(EngineCall(x, s, "classifyGroundPoints"),
                                          LAMBDA y : { Save(AddProduct(y, "ground_classes"), s) })
                                ELSE {x}),
                LAMBDA x : { LogParameters(x, s) })

\* filter_point_cloud (lines 808-830)
FilterPointCloudOutcomes(st, c, net) ==
  LET s == "filterPointCloud"
  IN  IF c.point_confidence_max
      THEN IF net = "network"
           THEN { st }
           ELSE Then(EngineCall(st, s, "removePoints"),
                     LAMBDA x : { Save(LogParameters(
                                         AddProduct(x, "point_cloud_filtered"), s), s) })
      ELSE { st }

\* build_texture (lines 874-928)
BuildTextureOutcomes(st, c, net) ==
  LET s == "buildTexture"
  IN  IF net = "network"
      THEN Then(Then(EncodeTask(st, s, "BuildUV"),
                     LAMBDA x : EncodeTask(x, s, "BuildTexture")),
                LAMBDA x : { LogParameters(x, s) })
      ELSE Then(Then(EngineCall(st, s, "buildUV"),
                     LAMBDA x : EngineCall(x, s, "buildTexture")),
                LAMBDA x : { LogParameters(Save(AddProduct(x, "texture"), s), s) })

\* build_contours (lines 968-1001): the elevation model of the live session
\* is read before the branch on the mode.
BuildContoursOutcomes(st, c, net) ==
  LET s == "buildContours"
  IN  IF "dem" \notin st.doc.products
      THEN { Raise(st, s) }
      ELSE BuildOutcomes(st, s, net, "BuildContours", "buildContours", "contours")

----------------------------------------------------------------------------
\* init_tasks (lines 252-347)

\* init_tasks has no exception handler around a stage.
StageResultSwallowed(ok) == "tasks"

StageResult(ok) == IF ok THEN "tasks" ELSE "failed"

\* The call of the handler of stage s from the if-chain.
RunHandler(s, o) ==
  /\ pos' = NextStage(cfg, pos)
  /\ trace' = trace \o <<Ev("handler", s, "")>> \o o.evs
  /\ doc' = o.doc
  /\ files' = o.files
  /\ task_batch' = o.tasks
  /\ pc' = StageResult(o.ok)
  /\ cfg' = o.cfg
  /\ UNCHANGED <<filtering, network, project_file>>

AtStage(s) ==
  /\ pc = "tasks"
  /\ NextStage(cfg, pos) # 0
  /\ StageOrder[NextStage(cfg, pos)] = s

Now == St(doc, files, task_batch, cfg)

AddPhotos ==
  /\ AtStage("addPhotos")
  /\ \E o \in AddPhotosOutcomes(Now, cfg, network) : RunHandler("addPhotos", o)

AnalyzeImages ==
  /\ AtStage("analyzeImages")
  /\ \E o \in AnalyzeImagesOutcomes(Now, cfg, network) : RunHandler("analyzeImages", o)

DetectGcps ==
  /\ AtStage("detectGCPs")
  /\ \E o \in DetectGcpsOutcomes(Now, cfg, network) : RunHandler("detectGCPs", o)

AddGcps ==
  /\ AtStage("addGCPs")
  /\ \E o \in AddGcpsOutcomes(Now, cfg, network) : RunHandler("addGCPs", o)

AlignPhotos ==
  /\ AtStage("alignPhotos")
  /\ \E o \in AlignPhotosOutcomes(Now, cfg, network) : RunHandler("alignPhotos", o)

OptimizeCameras ==
  /\ AtStage("optimizeCameras")
  /\ \E o \in OptimizeCamerasOutcomes(Now, cfg, network) : RunHandler("optimizeCameras", o)

BuildDepthMaps ==
  /\ AtStage("buildDepthMaps")
  /\ \E o \in BuildDepthMapsOutcomes(Now, cfg, network) : RunHandler("buildDepthMaps", o)

BuildPointCloud ==
  /\ AtStage("buildPointCloud")
  /\ \E o \in BuildPointCloudOutcomes(Now, cfg, network) : RunHandler("buildPointCloud", o)

FilterPointCloud ==
  /\ AtStage("filterPointCloud")
  /\ \E o \in FilterPointCloudOutcomes(Now, cfg, network) : RunHandler("filterPointCloud", o)

BuildModel ==
  /\ AtStage("buildModel")
  /\ \E o \in BuildModelOutcomes(Now, cfg, network) : RunHandler("buildModel", o)

BuildTexture ==
  /\ AtStage("buildTexture")
  /\ \E o \in BuildTextureOutcomes(Now, cfg, network) : RunHandler("buildTexture", o)

BuildTiledModel ==
  /\ AtStage("buildTiledModel")
  /\ \E o \in BuildTiledModelOutcomes(Now, cfg, network) : RunHandler("buildTiledModel", o)

\* self.build_dem() (line 327): build_dem is defined inside the body of
\* build_contours (lines 1003-1041), so the class has no such method and the
\* call raises AttributeError in init_tasks.
BuildDem ==
  /\ AtStage("buildDEM")
  /\ pos' = NextStage(cfg, pos)
  /\ trace' = Append(trace, Ev("raise", "buildDEM", "AttributeError"))
  /\ pc' = "failed"
  /\ UNCHANGED <<filtering, cfg, network, project_file, doc, files, task_batch>>

BuildContours ==
  /\ AtStage("buildContours")
  /\ \E o \in BuildContoursOutcomes(Now, cfg, network) : RunHandler("buildContours", o)

\* export_report when exportReport raises (lines 1098-1101): the bare
\* except logs a warning, and doc.save() follows the try statement.
ReportFailureUnsaved(st, s) ==
  [st EXCEPT !.evs = Append(@, Ev("caught", s, "warning"))]

ReportFailure(st, s) ==
  Save([st EXCEPT !.evs = Append(@, Ev("caught", s, "warning"))], s)

\* export_report (lines 1084-1101): a task in network mode; in local mode
\* the export's failure is caught and the session is saved.
ExportReportOutcomes(st, net, pf) ==
  LET s == "exportReport"
      begun == [st EXCEPT !.evs = Append(@, Ev("report", s, pf))]
      called == [begun EXCEPT !.evs = Append(@, Ev("engine", s, "exportReport"))]
  IN  IF net = "network"
      THEN { [begun EXCEPT !.tasks = Append(@, "ExportReport"),
                           !.evs = Append(@, Ev("task", s, "ExportReport"))] }
      ELSE { Save(called, s), ReportFailure(called, s) }

ExportReport ==
  /\ pc = "tasks"
  /\ NextStage(cfg, pos) = 0
  /\ \E o \in ExportReportOutcomes(Now, network, project_file) :
       /\ trace' = trace \o o.evs
       /\ doc' = o.doc
       /\ files' = o.files
       /\ task_batch' = o.tasks
  /\ pos' = Len(StageOrder)
  /\ pc' = "final"
  /\ UNCHANGED <<filtering, cfg, network, project_file>>

\* What follows export_report in init_tasks (lines 338-343).
FinalStepAlsoPublish(net, c) ==
  IF Enabled(c, "publishData") THEN "publish"
  ELSE IF net = "network" THEN "submit" ELSE "none"

FinalStep(net, c) ==
  IF net = "network" THEN "submit"
  ELSE IF Enabled(c, "publishData") THEN "publish" ELSE "none"

\* The calls of _network_submit_batch on the client (lines 1115-1117):
\* createBatch with the project path and the task list, then
\* setBatchPaused, then disconnect.
SubmitCallsDisconnectFirst(pf, tasks) ==
  <<Ev("disconnect", "submit", "")>>
    \o <<Ev("createBatch", "submit", pf)>>
    \o [n \in 1..Len(tasks) |-> Ev("batched", "submit", tasks[n])]
    \o <<Ev("setBatchPaused", "submit", "")>>

SubmitCalls(pf, tasks) ==
  <<Ev("createBatch", "submit", pf)>>
    \o [n \in 1..Len(tasks) |-> Ev("batched", "submit", tasks[n])]
    \o <<Ev("setBatchPaused", "submit", ""), Ev("disconnect", "submit", "")>>

\* _network_submit_batch (lines 1109-1118)
NetworkSubmitBatch ==
  /\ pc = "final"
  /\ FinalStep(network, cfg) = "submit"
  /\ LET s == "submit"
         saved == Save([Now EXCEPT !.evs = <<Ev("submit", s, "")>>], s)
     IN  /\ doc' = saved.doc
         /\ files' = saved.files
         /\ \E accepted \in BOOLEAN :
              IF accepted
              THEN /\ trace' = trace \o saved.evs \o SubmitCalls(project_file, task_batch)
                   /\ pc' = "terminate"
              ELSE /\ trace' = trace \o saved.evs \o <<Ev("raise", s, "createBatch")>>
                   /\ pc' = "failed"
  /\ UNCHANGED <<filtering, cfg, pos, network, project_file, task_batch>>

\* publish_data (lines 1043-1081)
PublishData ==
  /\ pc = "final"
  /\ FinalStep(network, cfg) = "publish"
  /\ \E published \in BOOLEAN :
       IF published
       THEN /\ trace' = trace \o <<Ev("publish", "publishData", ""),
                                   Ev("engine", "publishData", "publishData"),
                                   Ev("log", "publishData", "parameters")>>
            /\ pc' = "terminate"
       ELSE /\ trace' = trace \o <<Ev("publish", "publishData", ""),
                                   Ev("engine", "publishData", "publishData"),
                                   Ev("raise", "publishData", "")>>
            /\ pc' = "failed"
  /\ UNCHANGED <<filtering, cfg, pos, network, project_file, doc, files, task_batch>>

\* _terminate_logging and del self.doc (lines 345-347)
TerminateLogging ==
  /\ \/ pc = "terminate"
     \/ pc = "final" /\ FinalStep(network, cfg) = "none"
  /\ pc' = "done"
  /\ doc' = NoDoc
  /\ trace' = Append(trace, Ev("terminate", "init_tasks", ""))
  /\ UNCHANGED <<filtering, cfg, pos, network, project_file, files, task_batch>>

Next ==
  \/ InitWorkspaceUnsafe
  \/ InitWorkspace
  \/ AddPhotos
  \/ AnalyzeImages
  \/ DetectGcps
  \/ AddGcps
  \/ AlignPhotos
  \/ OptimizeCameras
  \/ BuildDepthMaps
  \/ BuildPointCloud
  \/ FilterPointCloud
  \/ BuildModel
  \/ BuildTexture
  \/ BuildTiledModel
  \/ BuildDem
  \/ BuildContours
  \/ ExportReport
  \/ NetworkSubmitBatch
  \/ PublishData
  \/ TerminateLogging

Spec == Init /\ [][Next]_vars

\* The steps of a run in which only import stages are configured.
NextImport ==
  \/ InitWorkspaceUnsafe
  \/ InitWorkspace
  \/ AddPhotos
  \/ AnalyzeImages
  \/ AddGcps
  \/ ExportReport
  \/ NetworkSubmitBatch
  \/ TerminateLogging

SpecImport == InitImport /\ [][NextImport]_vars

----------------------------------------------------------------------------
\* The filtering of a stage's section against the allow-list of an engine
\* operation, on its own.

\* The longest section filtered.
MaxKeys == 3

\* matchPhotos_dict, alignCameras_dict (lines 583-608), buildDepth_dict
\* (lines 714-723), buildPoint_dict (lines 752-760), buildContours_dict
\* (lines 975-981), analyzeImages_dict (lines 447-450).
AllowList ==
  [ matchPhotos |->
      { "downscale", "generic_preselection", "reference_preselection",
        "reference_preselection_mode", "filter_mask", "mask_tiepoints",
        "filter_stationary_points", "keypoint_limit", "tiepoint_limit",
        "keypoint_limit_per_mpx", "keep_keypoints", "guided_matching",
        "reset_matches", "subdivide_task", "workitem_size_cameras",
        "workitem_size_pairs", "max_workgroup_size" },
    alignCameras |->
      { "cameras", "min_image", "adaptive_fitting", "reset_alignment",
        "subdivide_task" },
    buildDepthMaps |->
      { "downscale", "filter_mode", "cameras", "reuse_depth", "max_neighbors",
        "subdivide_task", "workitem_size_cameras", "max_workgroup_size" },
    buildPointCloud |->
      { "point_colors", "point_confidence", "keep_depth", "max_neighbors",
        "subdivide_task", "workitem_size_cameras", "max_workgroup_size" },
    buildContours |->
      { "source_data", "interval", "min_value", "max_value",
        "prevent_intersection" },
    analyzeImages |-> { "cameras", "filter_mask" } ]

\* The keys and values of the sections filtered here: keys of one list, of
\* two, of all and of none.
SectionKeys == {"enabled", "double_alignment", "downscale", "cameras", "subdivide_task", "filter_mode"}
SectionValues == {"a", "b"}

\* A mapping is the sequence of its items <<key, value>>, in the order of
\* insertion, with no key twice.
KeysOf(m) == { m[n][1] : n \in DOMAIN m }

Mappings ==
  { m \in UNION { [1..n -> SectionKeys \X SectionValues] : n \in 0..MaxKeys } :
      Cardinality(KeysOf(m)) = Len(m) }

\* Two mappings are equal when they hold the same items (dict.__eq__).
AsMap(m) == { m[n] : n \in DOMAIN m }

\* params[key] = value
SetItem(m, key, value) ==
  IF key \in KeysOf(m)
  THEN [n \in DOMAIN m |-> IF m[n][1] = key THEN <<key, value>> ELSE m[n]]
  ELSE Append(m, <<key, value>>)

\* if key in X_dict (lines 611, 616, 728)
AllowedAlways(key, allow) == TRUE

Allowed(key, allow) == key \in allow

\* for key, value in self.cfg[stage].items(): if key in X_dict:
\* X_parameters[key] = value (lines 610-618, 726-729)
RECURSIVE FilterInto(_, _, _)
FilterInto(params, items, allow) ==
  IF items = <<>> THEN params
  ELSE FilterInto(IF Allowed(Head(items)[1], allow)
                  THEN SetItem(params, Head(items)[1], Head(items)[2])
                  ELSE params,
                  Tail(items), allow)

Filter(items, allow) == FilterInto(<<>>, items, allow)

Swap(m, i) ==
  [n \in DOMAIN m |-> IF n = i THEN m[i + 1] ELSE IF n = i + 1 THEN m[i] ELSE m[n]]

InitFilter ==
  /\ \E list \in DOMAIN AllowList, m \in Mappings :
       filtering = [ phase |-> "section", list |-> list, section |-> m,
                     parameters |-> <<>>, first |-> <<>>, filtered |-> 0, changed |-> "" ]
  /\ cfg = [load_project_path |-> NoPath]
  /\ pc = "filter"
  /\ pos = 0
  /\ network = "unset"
  /\ project_file = NoPath
  /\ doc = NoDoc
  /\ files = [p \in Paths |-> NoDoc]
  /\ task_batch = <<>>
  /\ trace = <<>>

\* The handler filters the section.
FilterSection ==
  /\ filtering.phase = "section"
  /\ LET params == Filter(filtering.section, AllowList[filtering.list])
     IN  filtering' = [filtering EXCEPT
                         !.phase = "filtered",
                         !.parameters = params,
                         !.first = IF filtering.filtered = 0 THEN params ELSE @,
                         !.filtered = 1]
  /\ UNCHANGED <<cfg, pc, pos, network, project_file, doc, files, task_batch, trace>>

\* The same section with two neighbouring keys the other way round.
Reorder ==
  /\ filtering.phase = "filtered"
  /\ filtering.changed # "refilter"
  /\ \E i \in 1..(Len(filtering.section) - 1) :
       filtering' = [filtering EXCEPT !.phase = "section", !.changed = "reorder",
                                      !.section = Swap(@, i)]
  /\ UNCHANGED <<cfg, pc, pos, network, project_file, doc, files, task_batch, trace>>

\* The result of the filter is filtered again.
Refilter ==
  /\ filtering.phase = "filtered"
  /\ filtering.changed # "refilter"
  /\ filtering' = [filtering EXCEPT !.phase = "section", !.changed = "refilter",
                                    !.section = filtering.parameters]
  /\ UNCHANGED <<cfg, pc, pos, network, project_file, doc, files, task_batch, trace>>

NextFilter == FilterSection \/ Reorder \/ Refilter

SpecFilter == InitFilter /\ [][NextFilter]_vars

----------------------------------------------------------------------------
\* The parameters a handler hands to the engine operation or the task,
\* from the section of its stage.

\* The stages whose parameters are built here, and the keys of their
\* sections: allow-listed for some of them, and "enabled" for none.
ParameterStages == {"analyzeImages", "buildDepthMaps", "buildPointCloud", "buildContours"}

ParameterKeys ==
  {"enabled", "cameras", "max_neighbors", "subdivide_task", "point_confidence", "min_value"}

SectionsOver(keys) ==
  { m \in UNION { [1..n -> keys \X SectionValues] : n \in 0..MaxKeys } :
      Cardinality(KeysOf(m)) = Len(m) }

\* if self.cfg["subdivide_task"]: self.cfg[stage]["subdivide_task"] = ...
\* in init_tasks (lines 271-332), for the stages from addGCPs on; top is
\* the value of the key subdivide_task of the configuration, "" when it
\* is false.
Subdivided(stage, section, top) ==
  IF stage # "analyzeImages" /\ top # ""
  THEN SetItem(section, "subdivide_task", top)
  ELSE section

Handed(params) == [raised |-> FALSE, parameters |-> params]

\* analyze_images (lines 447-454): the parameters are a list, and storing
\* under a key raises TypeError.
AnalyzeParameters(section) ==
  IF KeysOf(section) \cap AllowList["analyzeImages"] # {}
  THEN [raised |-> TRUE, parameters |-> <<>>]
  ELSE Handed(<<>>)

\* build_point_cloud (lines 762-767)
PointParameters(section) ==
  Handed(SetItem(Filter(section, AllowList["buildPointCloud"]),
                 "point_confidence", "True"))

\* build_contours (lines 983-989)
ContoursParameters(section) ==
  Handed(FilterInto(<< <<"min_value", "elevation.min">>,
                       <<"max_value", "elevation.max">> >>,
                    section, AllowList["buildContours"]))

\* build_depth_maps (lines 725-729)
DepthParameters(section) == Handed(Filter(section, AllowList["buildDepthMaps"]))

ParametersOf(stage, section) ==
  CASE stage = "analyzeImages" -> AnalyzeParameters(section)
    [] stage = "buildPointCloud" -> PointParameters(section)
    [] stage = "buildContours" -> ContoursParameters(section)
    [] stage = "buildDepthMaps" -> DepthParameters(section)

InitParameters ==
  /\ \E stage \in ParameterStages, m \in SectionsOver(ParameterKeys) :
       filtering = [ phase |-> "configured", stage |-> stage, section |-> m,
                     raised |-> FALSE, parameters |-> <<>> ]
  /\ cfg = [load_project_path |-> NoPath]
  /\ pc = "parameters"
  /\ pos = 0
  /\ network = "unset"
  /\ project_file = NoPath
  /\ doc = NoDoc
  /\ files = [p \in Paths |-> NoDoc]
  /\ task_batch = <<>>
  /\ trace = <<>>

\* init_tasks reaches the stage and its handler builds the parameters.
BuildParameters ==
  /\ filtering.phase = "configured"
  /\ \E top \in {""} \cup SectionValues :
       LET built == ParametersOf(filtering.stage,
                                 Subdivided(filtering.stage, filtering.section, top))
       IN  filtering' = [filtering EXCEPT !.phase = "handed",
                                          !.raised = built.raised,
                                          !.parameters = built.parameters]
  /\ UNCHANGED <<cfg, pc, pos, network, project_file, doc, files, task_batch, trace>>

NextParameters == BuildParameters

SpecParameters == InitParameters /\ [][NextParameters]_vars

----------------------------------------------------------------------------
\* Properties

Events(k) == { i \in DOMAIN trace : trace[i].k = k }

Count(k) == Cardinality(Events(k))

EventsOf(k, s) == { i \in Events(k) : trace[i].s = s }

\* The stages the configuration holds with enabled true.
ConfiguredOn == { s \in Stages : cfg.section[s] = "on" }

Resuming == cfg.load_project_path = SrcPath /\ cfg.enable_overwrite # "on"

\* C1: when a run resumes an existing project and enable_overwrite is false
\* or absent, no save performed during init_workspace or by a stage of
\* init_tasks writes to the loaded source project file.
C1_NoSaveToSource ==
  Resuming =>
    \A i \in Events("save") :
      trace[i].s \in Stages \cup {"init_workspace"} => trace[i].a # cfg.load_project_path

\* C2: for each of the fourteen stages the dispatcher has passed, the
\* stage's handler has executed if and only if the configuration holds the
\* stage's key with enabled true (buildDEM included).
C2_HandlerIffEnabled ==
  \A n \in 1..pos :
    (EventsOf("handler", StageOrder[n]) # {}) <=> (cfg.section[StageOrder[n]] = "on")

\* The order of the stages as the specification declares it.
FixedOrder ==
  << "addPhotos", "analyzeImages", "detectGCPs", "addGCPs", "alignPhotos",
     "optimizeCameras", "buildDepthMaps", "buildPointCloud", "filterPointCloud",
     "buildModel", "buildTexture", "buildTiledModel", "buildDEM", "buildContours" >>

Rank(s) == CHOOSE n \in DOMAIN FixedOrder : FixedOrder[n] = s

\* C3: the handlers invoked in a run are handlers of enabled stages and are
\* invoked in the fixed order, each at most once.
C3_FixedOrder ==
  /\ \A i \in Events("handler") : cfg.section[trace[i].s] = "on"
  /\ \A i, j \in Events("handler") : i < j => Rank(trace[i].s) < Rank(trace[j].s)

C3_Witness ==
  /\ pc = "done"
  /\ EventsOf("handler", "alignPhotos") # {}
  /\ EventsOf("handler", "optimizeCameras") # {}

\* C4: a stage whose key is absent or whose enabled flag is false gets no
\* handler call, no engine call, no session mutation or save, and no task
\* descriptor in the batch.
C4_DisabledStageUntouched ==
  /\ \A i \in DOMAIN trace :
       (trace[i].s \in Stages /\ trace[i].k \in {"handler", "engine", "mutate", "save", "task"})
         => cfg.section[trace[i].s] = "on"
  /\ Len(task_batch) = Count("task")

C4_Witness ==
  /\ pc = "done"
  /\ network = "network"
  /\ cfg.section["alignPhotos"] = "off"
  /\ cfg.section["buildModel"] = "on"
  /\ task_batch # <<>>

OnlyAlignAndDepth ==
  /\ network = "network"
  /\ ConfiguredOn = {"alignPhotos", "buildDepthMaps"}
  /\ Events("createBatch") # {}

NoLocalWorkFor(S) ==
  \A i \in DOMAIN trace : trace[i].s \in S => trace[i].k \notin {"engine", "mutate", "save"}

\* C5 as stated: in distributed mode with only alignPhotos and
\* buildDepthMaps enabled, the task list passed to createBatch is exactly
\* MatchPhotos, AlignCameras, BuildDepthMaps.
C5_ThreeDescriptors ==
  OnlyAlignAndDepth =>
    /\ task_batch = <<"MatchPhotos", "AlignCameras", "BuildDepthMaps">>
    /\ NoLocalWorkFor({"alignPhotos", "buildDepthMaps"})

\* C5 amended: the task list passed to createBatch is MatchPhotos,
\* AlignCameras, BuildDepthMaps followed by the ExportReport task of
\* export_report, and no synchronous engine operation of the two stages is
\* applied to the local session.
C5_StageDescriptorsThenReport ==
  OnlyAlignAndDepth =>
    /\ task_batch = <<"MatchPhotos", "AlignCameras", "BuildDepthMaps", "ExportReport">>
    /\ NoLocalWorkFor({"alignPhotos", "buildDepthMaps"})

C5_Witness == OnlyAlignAndDepth /\ pc = "done"

\* C6 as stated: in distributed mode no stage handler invokes an engine
\* operation synchronously, mutates cameras or markers, or persists the
\* session.
C6_NetworkHandlersOnlyEncode ==
  network = "network" => NoLocalWorkFor(Stages)

\* C6 amended: in distributed mode the handlers other than add_photos and
\* add_gcps invoke no engine operation synchronously and do not persist the
\* session, and those other than add_photos, add_gcps and optimize_cameras
\* do not mutate cameras or markers.
C6_NetworkHandlersExceptImport ==
  network = "network" =>
    /\ \A i \in DOMAIN trace :
         trace[i].s \in Stages \ {"addPhotos", "addGCPs"}
           => trace[i].k \notin {"engine", "save"}
    /\ \A i \in DOMAIN trace :
         trace[i].s \in Stages \ {"addPhotos", "addGCPs", "optimizeCameras"}
           => trace[i].k # "mutate"

C6_Witness ==
  /\ network = "network"
  /\ pc = "done"
  /\ EventsOf("task", "buildModel") # {}
  /\ EventsOf("task", "buildTexture") # {}

\* C7: in local mode, at the start of every stage the persisted session
\* equals the in-memory session.
C7_WriteThrough ==
  (network = "local" /\ pc = "tasks" /\ NextStage(cfg, pos) # 0)
    => files[doc.path] = doc

StageRaises == { i \in Events("raise") : trace[i].s \in Stages }

\* C8: a raise of a stage ends the run there: nothing follows it in the
\* run, the stage's handler was called once, and no report export and no
\* batch submission has happened.
C8_FailureAborts ==
  \A i \in StageRaises :
    /\ i = Len(trace)
    /\ pc = "failed"
    /\ Cardinality(EventsOf("handler", trace[i].s)) <= 1
    /\ Count("report") = 0
    /\ Count("submit") = 0
    /\ Count("createBatch") = 0

C8_Witness ==
  /\ pc = "failed"
  /\ network = "network"
  /\ EventsOf("raise", "alignPhotos") # {}
  /\ cfg.section["buildDepthMaps"] = "on"

\* C9: the report export runs exactly once, after the last stage of a stage
\* sequence that completed without failure; after it, in distributed mode
\* the batch is submitted and nothing is published, and in local mode the
\* publish step runs iff publishData is present and enabled, and no batch
\* is submitted.
C9_ReportThenSubmitOrPublish ==
  /\ Count("report") <= 1
  /\ Count("submit") <= 1
  /\ Count("publish") <= 1
  /\ \A i \in Events("report") :
       /\ StageRaises = {}
       /\ \A s \in ConfiguredOn : \E j \in EventsOf("handler", s) : j < i
       /\ \A j \in Events("handler") : j < i
       /\ \A j \in Events("submit") \cup Events("publish") : i < j
  /\ (pc = "tasks" /\ \A s \in ConfiguredOn : EventsOf("handler", s) # {})
       => ENABLED ExportReport
  /\ pc \in {"final", "terminate", "done"} => Count("report") = 1
  /\ network = "network" => Count("publish") = 0
  /\ network # "network" => Count("submit") = 0
  /\ pc \in {"terminate", "done"} =>
       IF network = "network"
       THEN Count("submit") = 1
       ELSE (Count("publish") = 1) <=> (cfg.section["publishData"] = "on")

C9_Witness ==
  /\ pc = "done"
  /\ network = "network"
  /\ cfg.section["publishData"] = "on"
  /\ Count("submit") = 1
  /\ Count("handler") > 0

AlignCalls == { i \in Events("engine") : trace[i].a = "alignCameras" }

\* C10: in local mode alignCameras is invoked at most twice in one run.
C10_AtMostTwoAlignments ==
  network = "local" => Cardinality(AlignCalls) <= 2

C10_Witness ==
  /\ network = "local"
  /\ Cardinality(AlignCalls) = 2
  /\ EventsOf("log", "alignPhotos") # {}
  /\ doc.cams \ doc.aligned # {}

TasksOf(s) == [ n \in 1..Cardinality(EventsOf("task", s)) |->
                  trace[CHOOSE i \in EventsOf("task", s) :
                          Cardinality({ j \in EventsOf("task", s) : j <= i }) = n].a ]

\* C11: in distributed mode with alignPhotos.double_alignment set, a call of
\* align_photos never invokes an engine operation on the local session and
\* appends at most one MatchPhotos and then one AlignCameras descriptor; once
\* it has returned it has appended exactly these two, in this order, and has
\* logged the warning about the re-alignment once.
C11_ServerDoubleAlignmentWarnsOnly ==
  (network = "network" /\ cfg.double_alignment) =>
    /\ EventsOf("engine", "alignPhotos") = {}
    /\ EventsOf("save", "alignPhotos") = {}
    /\ \E n \in 0..2 : TasksOf("alignPhotos") = SubSeq(<<"MatchPhotos", "AlignCameras">>, 1, n)
    /\ EventsOf("log", "alignPhotos") # {} =>
         /\ TasksOf("alignPhotos") = <<"MatchPhotos", "AlignCameras">>
         /\ Cardinality(EventsOf("warn", "alignPhotos")) = 1
         /\ task_batch # <<>>

C11_Witness ==
  /\ network = "network"
  /\ cfg.double_alignment
  /\ cfg.section["alignPhotos"] = "on"
  /\ EventsOf("log", "alignPhotos") # {}
  /\ EventsOf("warn", "alignPhotos") # {}
  /\ doc.cams \ doc.aligned # {}

Running == pc \in {"tasks", "final", "terminate", "done"}

\* C12: the mode is unset until init_workspace has run; a run that has left
\* init_workspace is in distributed mode iff networkProcessing is present
\* and enabled, in local mode otherwise; the flag is assigned only by the
\* step of init_workspace and no later step changes it.
C12_ModeAssignedOnce ==
  /\ [](/\ pc = "start" => network = "unset"
        /\ Running => /\ network \in {"network", "local"}
                      /\ network = "network" <=> cfg.networkProcessing = "on"
        /\ Count("handler") > 0 => network \in {"network", "local"})
  /\ [][network' # network => pc = "start" /\ network = "unset"]_vars

C12_Witness ==
  /\ pc = "done"
  /\ network = "local"
  /\ cfg.networkProcessing = "off"
  /\ Count("handler") >= 2
  /\ Count("report") = 1

OverwriteResume == cfg.load_project_path = SrcPath /\ cfg.enable_overwrite = "on"

\* C13: when a run resumes an existing project with enable_overwrite true,
\* project_file after init_workspace is the path of the loaded project, the
\* report is exported beside that path and the batch is created under it.
C13_OverwriteTargetsLoadedProject ==
  (OverwriteResume /\ pc # "start") =>
    /\ project_file = cfg.load_project_path
    /\ \A i \in Events("report") \cup Events("createBatch") :
         trace[i].a = cfg.load_project_path

C13_Witness ==
  /\ OverwriteResume
  /\ pc = "done"
  /\ Count("report") = 1
  /\ Count("createBatch") = 1
  /\ project_file = SrcPath

ClientCalls == Events("connect") \cup Events("createBatch")
                 \cup Events("setBatchPaused") \cup Events("disconnect")

Only(k) == CHOOSE i \in Events(k) : TRUE

Names(S) == [ n \in 1..Cardinality(S) |->
                trace[CHOOSE i \in S : Cardinality({ j \in S : j <= i }) = n].a ]

\* C14: a batch is created at most once in a run; a completed submission
\* has, each once and in this order, saved the session, created the batch
\* under project_file with all the tasks accumulated, in the order of
\* their accumulation, unpaused it and disconnected; no call on the client
\* follows the disconnect.
C14_SubmitOnceInOrder ==
  /\ Count("createBatch") <= 1
  /\ Count("disconnect") <= 1
  /\ \A d \in Events("disconnect") : \A i \in ClientCalls : i <= d
  /\ (pc \in {"terminate", "done"} /\ network = "network") =>
       /\ Cardinality(EventsOf("save", "submit")) = 1
       /\ Count("createBatch") = 1
       /\ Count("setBatchPaused") = 1
       /\ Count("disconnect") = 1
       /\ Only("submit") < CHOOSE i \in EventsOf("save", "submit") : TRUE
       /\ (CHOOSE i \in EventsOf("save", "submit") : TRUE) < Only("createBatch")
       /\ Only("createBatch") < Only("setBatchPaused")
       /\ Only("setBatchPaused") < Only("disconnect")
       /\ trace[Only("createBatch")].a = project_file
       /\ Names(Events("batched")) = Names(Events("task"))
       /\ \A i \in Events("task") : i < Only("createBatch")
       /\ \A i \in Events("batched") : Only("createBatch") < i /\ i < Only("setBatchPaused")

C14_Witness ==
  /\ pc = "done"
  /\ network = "network"
  /\ Count("disconnect") = 1
  /\ Count("batched") >= 3
  /\ \E i, j \in Events("batched") : trace[i].a # trace[j].a

ConnectFailed == { i \in EventsOf("raise", "init_workspace") : trace[i].a = "connect" }

\* C15: when connecting to the server fails in init_workspace, the failure
\* ends the run: connect was called once, the run is in no mode (neither
\* local nor distributed), and no stage handler, report export, submission
\* or publication is ever invoked.
C15_ConnectFailureEndsRun ==
  ConnectFailed # {} =>
    /\ pc = "failed"
    /\ Count("connect") = 1
    /\ network = "unset"
    /\ trace[Len(trace)].k = "raise"
    /\ Count("handler") = 0 /\ Count("report") = 0
    /\ Count("submit") = 0 /\ Count("publish") = 0

C15_Witness ==
  /\ ConnectFailed # {}
  /\ cfg.networkProcessing = "on"
  /\ ConfiguredOn # {}

\* C17: when load_project_path lies in a OneDrive folder, init_workspace
\* fails before it changes anything: no directory is made, no log file is
\* opened or copied, no session is created, opened or saved, and every
\* project file is as it was.
C17_UnsafeLocationMutatesNothing ==
  (cfg.load_project_path = OneDrivePath /\ pc # "start") =>
    /\ pc = "failed"
    /\ Count("mkdir") = 0 /\ Count("logfile") = 0
    /\ Count("open") = 0 /\ Count("save") = 0 /\ Count("connect") = 0
    /\ doc = NoDoc
    /\ \A p \in Paths :
         files[p] = IF p = cfg.load_project_path THEN LoadedDoc(p) ELSE NoDoc
    /\ network = "unset"

C17_Witness ==
  /\ cfg.load_project_path = OneDrivePath
  /\ pc = "failed"
  /\ EventsOf("raise", "init_workspace") # {}
  /\ ConfiguredOn # {}

MissingColumns == { i \in EventsOf("raise", "addGCPs") : trace[i].a = "columns" }

\* C16: when add_gcps fails because the coordinate table lacks a required
\* column, it has created no marker and attached no projection before the
\* failure.
C16_MissingColumnsMutatesNothing ==
  \A i \in MissingColumns :
    \A j \in EventsOf("mutate", "addGCPs") :
      j < i => trace[j].a \notin {"addMarker", "projection"}

\* C19: a call of analyze_images in local mode that returns has disabled
\* exactly the cameras whose quality is strictly below the cutoff, the
\* configured one or 0.5 (50 hundredths) when quality_cutoff is absent, and
\* has left the enabled state of every other camera as it was; the default
\* is logged and written into the configuration.
C19_DisabledIffBelowCutoff ==
  [][ (/\ pc = "tasks" /\ pc' = "tasks"
       /\ network = "local"
       /\ Cardinality(EventsOf("handler", "analyzeImages")') >
            Cardinality(EventsOf("handler", "analyzeImages")))
      => LET cutoff == IF cfg.quality_cutoff.present
                       THEN cfg.quality_cutoff.value ELSE 50
         IN  /\ doc'.disabled =
                  doc.disabled \cup { cam \in doc'.cams : doc'.quality[cam] < cutoff }
             /\ cfg'.quality_cutoff = [present |-> TRUE, value |-> cutoff]
             /\ ~cfg.quality_cutoff.present =>
                  \E i \in EventsOf("log", "analyzeImages")' :
                    trace'[i].a = "default cutoff" ]_vars

C19_Witness ==
  /\ network = "local"
  /\ \E i \in EventsOf("log", "analyzeImages") : trace[i].a = "default cutoff"
  /\ \E cam \in doc.cams : doc.quality[cam] = 49 /\ cam \in doc.disabled
  /\ \E cam \in doc.cams : doc.quality[cam] = 51 /\ cam \notin doc.disabled

UnmatchedRows(cams) ==
  { n \in DOMAIN cfg.gcp_pixels : cfg.gcp_pixels[n].camera \notin cams }

\* C20 as the specification states it: when add_gcps has been called with
\* a pixel table holding a row whose camera label matches no camera, the
\* stage has raised and the run is aborted.
C20_UnmatchedRowAborts ==
  (EventsOf("handler", "addGCPs") # {} /\ UnmatchedRows(Cameras) # {}) =>
    /\ EventsOf("raise", "addGCPs") # {}
    /\ pc = "failed"

\* C20, amended: a pixel row whose camera label matches no camera of the
\* session never fails the stage; when add_gcps has returned, it has
\* printed "camera not found" once for every such row and has attached the
\* projection of every other row.
C20_UnmatchedRowSkipped ==
  /\ \A i \in EventsOf("raise", "addGCPs") : trace[i].a # "camera not found"
  /\ (EventsOf("log", "addGCPs") # {} /\ doc.path # NoPath) =>
       /\ Cardinality(EventsOf("print", "addGCPs")) = Cardinality(UnmatchedRows(doc.cams))
       /\ \A n \in DOMAIN cfg.gcp_pixels :
            cfg.gcp_pixels[n].camera \in doc.cams =>
              <<cfg.gcp_pixels[n].marker, cfg.gcp_pixels[n].camera>> \in doc.projections

C20_Witness ==
  /\ EventsOf("log", "addGCPs") # {}
  /\ EventsOf("print", "addGCPs") # {}
  /\ UnmatchedRows(Cameras) # {}
  /\ doc.projections # {}
  /\ pc = "tasks"

\* C18: the keys of the filtered parameters are keys of the allow-list;
\* filtering the section with its keys in another order gives the same
\* mapping as the first filtering; and filtering the result again gives
\* the same mapping as the result.
C18_FilterIdempotentOrderFree ==
  filtering.phase = "filtered" =>
    /\ KeysOf(filtering.parameters) \subseteq AllowList[filtering.list]
    /\ filtering.changed = "reorder" =>
         AsMap(filtering.parameters) = AsMap(filtering.first)
    /\ filtering.changed = "refilter" =>
         /\ AsMap(filtering.parameters) = AsMap(filtering.section)
         /\ filtering.parameters = filtering.section

C18_Witness ==
  /\ filtering.phase = "filtered"
  /\ filtering.changed = "refilter"
  /\ Len(filtering.first) = 2
  /\ Len(filtering.parameters) = 2
  /\ filtering.parameters # filtering.first
  /\ AsMap(filtering.parameters) = AsMap(filtering.first)

\* The n-th event of kind k of stage s.
Nth(k, s, n) ==
  trace[CHOOSE i \in EventsOf(k, s) :
          Cardinality({ j \in EventsOf(k, s) : j <= i }) = n]

\* C21: in local mode with double_alignment set, align_photos calls
\* alignCameras a second time if and only if the first call has returned
\* and left a camera without a transform; the second call is on exactly
\* the cameras without a transform, with reset_alignment false, and there
\* is no third call.
C21_RepairOnExactlyTheUnaligned ==
  (network = "local" /\ cfg.double_alignment) =>
    LET calls == Cardinality(EventsOf("args", "alignPhotos"))
        done == Cardinality(EventsOf("transforms", "alignPhotos"))
    IN  /\ calls <= 2
        /\ calls = 2 <=>
             /\ done >= 1
             /\ Nth("transforms", "alignPhotos", 1).a
                  # Nth("args", "alignPhotos", 1).a.cameras
        /\ calls = 2 =>
             /\ Nth("args", "alignPhotos", 2).a.cameras =
                  Nth("args", "alignPhotos", 1).a.cameras
                    \ Nth("transforms", "alignPhotos", 1).a
             /\ Nth("args", "alignPhotos", 2).a.reset_alignment = FALSE

C21_Witness ==
  /\ network = "local"
  /\ cfg.double_alignment
  /\ Cardinality(EventsOf("transforms", "alignPhotos")) = 2
  /\ Nth("args", "alignPhotos", 2).a.cameras = {1}
  /\ Nth("transforms", "alignPhotos", 1).a = {2}
  /\ EventsOf("log", "alignPhotos") # {}

\* C22: the parameters a handler hands over are exactly the items of the
\* stage's section, as configured, whose key is in the allow-list of the
\* operation.
C22_ParametersAreTheConfiguredAllowed ==
  filtering.phase = "handed" =>
    /\ ~filtering.raised
    /\ AsMap(filtering.parameters) =
         { item \in AsMap(filtering.section) : item[1] \in AllowList[filtering.stage] }

\* The snapshots of stage s in the log that follow event i and precede the
\* next call of a handler.
SnapshotsAfter(i, s) ==
  { j \in EventsOf("log", s) :
      /\ trace[j].a = "parameters"
      /\ j > i
      /\ \A h \in Events("handler") : h > i => j < h }

\* C23: every handler that has run to completion has appended the
\* snapshot of its stage to the log, once, before the next handler starts.
C23_SnapshotPerCompletedStage ==
  \A i \in Events("handler") :
    EventsOf("raise", trace[i].s) = {} =>
      Cardinality(SnapshotsAfter(i, trace[i].s)) = 1

Caught == EventsOf("caught", "exportReport")

\* C24: in local mode a failure of exportReport is caught with a warning
\* and never leaves export_report; the session is saved after it; the run
\* goes on to publish_data when publishData is enabled and to the end of
\* init_tasks, where the completion is logged and the session released;
\* only a failure of publish_data itself can still end the run.
C24_ReportFailureIsNotFatal ==
  (network = "local" /\ Caught # {}) =>
    /\ EventsOf("raise", "exportReport") = {}
    /\ \A i \in Caught :
         /\ trace[i].a = "warning"
         /\ \E j \in EventsOf("save", "exportReport") : j > i
    /\ pc \in {"final", "terminate", "done", "failed"}
    /\ pc = "failed" => EventsOf("raise", "publishData") # {}
    /\ pc = "final" =>
         IF cfg.section["publishData"] = "on"
         THEN ENABLED PublishData ELSE ENABLED TerminateLogging
    /\ pc = "terminate" => ENABLED TerminateLogging /\ Count("publish") = 1
    /\ pc = "done" =>
         /\ Count("terminate") = 1
         /\ doc = NoDoc
         /\ (Count("publish") = 1) <=> (cfg.section["publishData"] = "on")

C24_Witness ==
  /\ network = "local"
  /\ Caught # {}
  /\ pc = "done"
  /\ Count("publish") = 1
  /\ Count("handler") > 0

============================================================================
